---- MODULE Spec2Model ----
(***************************************************************************)
(* Model of alena_messagebus_client:                                       *)
(*   - the multi-responder MessageCollector (client/collector.py),         *)
(*     specifications Spec and CallbackSpec;                               *)
(*   - the single-message MessageWaiter (client/waiter.py), WaiterSpec;    *)
(*   - MessageBusClient (client/client.py): the connection and emit(),     *)
(*     ClientSpec, and the listener registry, RegistrySpec;                *)
(*   - Message.reply and the methods built on it (message.py),             *)
(*     MessageSpec.                                                        *)
(*                                                                         *)
(* Collector and waiter time is counted in poll slices: one tick is the    *)
(* 0.1 s of all_collected.wait(timeout=0.1), and min_timeout, max_timeout  *)
(* and the handlers' declared timeouts are whole numbers of ticks. The     *)
(* client's time is counted in seconds.                                    *)
(***************************************************************************)
EXTENDS Integers, Sequences, FiniteSets, TLC

\* ----------------------------------------------------------------- bounds
\* Largest timeout (in ticks) given to the constructor or declared by a handler.
MaxTick == 1
\* Number of messages the dispatcher delivers to the collector's callbacks.
MaxDeliveries == 3

\* ------------------------------------------------------------- the inputs
HandlerIds == {"h1", "h2"}
\* self.collect_id = str(uuid4()); every other query id is foreign.
collect_id == "own"
QueryIds == {collect_id, "asdf"}
Ticks == 0 .. MaxTick
\* min_timeout as in the tests (0.0) and one non-zero grace period
MinTimeouts == {0, 1}
\* Python's None where a bus message is expected
None == [id |-> 0, type |-> "None"]
\* the None that ends the stream in self.queue
QueueEnd == [id |-> 0, query |-> "None"]
\* the message type a MessageWaiter waits for, and the messages the bus carries
msg_type == "delayed.message"
BusMsgs(id) == [id : {id}, type : {msg_type, "other.message"}]

VARIABLES
    \* MessageCollector
    min_timeout,        \* constructor argument
    max_timeout,        \* constructor argument
    handlers,           \* self.handlers: handler id -> remaining timeout
    responses,          \* self.responses: insertion-ordered dict, as a sequence of [handler, msg]
    queue,              \* self.queue: the messages and None markers put so far
    all_collected,      \* self.all_collected: the Event's flag
    registered,         \* listener types the collector has registered on the bus
    torn_down,          \* _teardown_collection_handlers has run to its end
    collect_pc,         \* position of a collect() call
    collect_result,     \* what collect() returned
    wait_pc,            \* position of a wait() call (_wait_for_registered_handlers)
    time_waited,        \* local of _wait_for_registered_handlers
    remaining_timeout,  \* local of _wait_for_registered_handlers
    wait_result,        \* the list built at the end of _wait_for_registered_handlers
    \* history of the run
    delivered,          \* number of messages delivered so far
    accepted,           \* the T.response messages accepted, in order of acceptance
    direct_hit,         \* direct_return_func returned true for an accepted response
    last_foreign,       \* the latest delivery carried a query other than collect_id
    on_response_callback, \* self.on_response_callback is set
    callback_calls,     \* the messages on_response_callback was called with
    unlocked_reads,     \* source lines that used handlers/responses outside `with self.lock`
    \* the dispatcher, as far as the MessageWaiter's message type goes
    listener,           \* MessageWaiter._handler is registered (with once) for msg_type
    pending,            \* emitted messages whose listener call waits in the executor
    emitted,            \* number of messages emitted so far
    \* MessageWaiter
    received_msg,       \* self.received_msg
    response_event,     \* self.response_event: the Event's flag
    handler_pc,         \* position of the (single) call of _handler
    handler_msg,        \* the argument of that call
    timeout,            \* the argument of wait(), in ticks
    elapsed,            \* ticks spent blocked in response_event.wait(timeout)
    waiter_pc,          \* position of the wait() call
    wait_returned,      \* what wait() returned
    expired,            \* response_event.wait(timeout) ended by the timeout
    recv_at_wake,       \* received_msg at the moment response_event.wait() returned
    emitted_at_wake,    \* number of messages emitted before response_event.wait() returned
    remove_exc,         \* how message_bus.remove() ended in wait(): not called, removed, or the exception
    \* --- MessageBusClient: the connection and emit() (client/client.py)
    connected_event,    \* self.connected_event is set
    started_running,    \* self.started_running
    socket_open,        \* the websocket of self.client is open: send() succeeds
    retry,              \* self.retry, seconds
    emit_pc,            \* position of the thread calling emit()
    emit_waited,        \* seconds spent in connected_event.wait(10)
    sent,               \* what became of the message of the last emit()
    \* --- MessageBusClient: the listener registry (client/client.py)
    listeners,          \* emitter._events: the registered <<event, callable>> pairs
    once_set,           \* the pairs of listeners that were registered with once()
    wrapped_funcs,      \* self.wrapped_funcs: function given to on_collect -> its wrapper
    remove_result,      \* how the last remove() ended: returned, or the exception raised
    \* --- Message / CollectionMessage (message.py)
    heap,               \* the nested mutable values (dicts), by address: address -> content
    orig,               \* context of the original message
    call,               \* the arguments of the deriving call, as they were at the call
    derived,            \* the derived message: its context and payload
    op,                 \* the method that derived it
    orig_view,          \* what the original's context read as when it was last written to
    derived_view,       \* what the derived message read as when it was made or last written to
    \* --- MessageBusClient.wait_for_response and the requests put on the bus
    request_pc,         \* position of a wait_for_response() call
    request_emitted,    \* the callers whose request has been emitted
    \* --- the wrapper on_collect registers, called with requests
    requests,           \* number of requests delivered to wrappers
    acks,               \* the T.handling acknowledgments the wrappers emitted
    invoked,            \* the CollectionMessages the user functions were called with
    wrapper_exc         \* the exception the last wrapper call ended with

cvars == <<min_timeout, max_timeout, handlers, responses, queue, all_collected,
           registered, torn_down, collect_pc, collect_result, wait_pc, time_waited,
           remaining_timeout, wait_result, delivered, accepted, direct_hit, last_foreign,
           on_response_callback, callback_calls, unlocked_reads>>

wvars == <<listener, pending, emitted, received_msg, response_event, handler_pc,
           handler_msg, timeout, elapsed, waiter_pc, wait_returned, expired,
           recv_at_wake, emitted_at_wake, remove_exc>>

kvars == <<connected_event, started_running, socket_open, retry, emit_pc,
           emit_waited, sent>>

rvars == <<listeners, once_set, wrapped_funcs, remove_result>>

mvars == <<heap, orig, call, derived, op, orig_view, derived_view>>

qvars == <<request_pc, request_emitted>>

hvars == <<requests, acks, invoked, wrapper_exc>>

vars == <<cvars, wvars, kvars, rvars, mvars, qvars, hvars>>

\* what the actions of one component leave alone
notCollector == <<wvars, kvars, rvars, mvars, qvars, hvars>>
notWaiter == <<cvars, kvars, rvars, mvars, qvars, hvars>>
notClient == <<cvars, wvars, rvars, mvars, qvars, hvars>>
notRegistry == <<cvars, wvars, kvars, mvars, qvars, hvars>>
notMessage == <<cvars, wvars, kvars, rvars, qvars, hvars>>
notRequest == <<cvars, kvars, rvars, mvars, hvars>>
notWrapper == <<cvars, wvars, kvars, rvars, mvars, qvars>>

\* A T.handling message: msg.data = {query, handler, timeout}. A message of another
\* query is filtered out before its timeout is read, so one timeout stands for all.
\* hasData is false for an object without a .data attribute (a Message envelope
\* has .payload only): reading msg.data raises before anything else is looked at.
HandlingMsgs ==
    [query : {collect_id}, handler : HandlerIds, timeout : Ticks, hasData : {TRUE}]
    \cup [query : QueryIds \ {collect_id}, handler : HandlerIds,
           timeout : {MaxTick}, hasData : {TRUE}]
    \cup [query : {collect_id}, handler : {"h1"}, timeout : {0}, hasData : {FALSE}]

\* A T.response message: msg.data = {query, handler}; id tells the messages apart,
\* direct is the value direct_return_func gives for the message.
ResponseMsgs(id) ==
    [id : {id}, query : {collect_id}, handler : HandlerIds, direct : BOOLEAN,
     hasData : {TRUE}]
    \cup [id : {id}, query : QueryIds \ {collect_id}, handler : HandlerIds,
           direct : {TRUE}, hasData : {TRUE}]
    \cup [id : {id}, query : {collect_id}, handler : {"h1"}, direct : {FALSE},
           hasData : {FALSE}]

\* ------------------------------------------------------ dict helpers
\* handler ids of self.responses, in insertion order
Keys(d) == {d[i].handler : i \in DOMAIN d}

Index(d, h) == CHOOSE i \in DOMAIN d : d[i].handler = h

\* d[h] = msg on an insertion-ordered dict: a new key goes last, an existing key
\* keeps its place and gets the new value.
DictSet(d, h, msg) ==
    IF h \in Keys(d)
    THEN [d EXCEPT ![Index(d, h)] = [handler |-> h, msg |-> msg]]
    ELSE Append(d, [handler |-> h, msg |-> msg])

\* [d[key] for key in d]
Values(d) == [i \in DOMAIN d |-> d[i].msg]

\* max(self.handlers.values()), for a non-empty dict
MaxOf(f) == CHOOSE v \in {f[h] : h \in DOMAIN f} : \A h \in DOMAIN f : f[h] <= v

\* self.handlers[h] = v
HandlersSet(f, h, v) == [x \in DOMAIN f \cup {h} |-> IF x = h THEN v ELSE f[x]]

\* self.handlers.get(h, 0)
HandlersGet(f, h) == IF h \in DOMAIN f THEN f[h] ELSE 0

\* ---------------------------------------------------------------- Init
\* MessageCollector.__init__, collector.py:21-38
CollectorConstructed ==
    /\ handlers = <<>>
    /\ responses = <<>>
    /\ queue = <<>>
    /\ all_collected = FALSE
    /\ registered = {}
    /\ torn_down = FALSE
    /\ collect_pc = "idle"
    /\ collect_result = <<>>
    /\ wait_pc = "idle"
    /\ time_waited = 0
    /\ remaining_timeout = 0
    /\ wait_result = <<>>
    /\ delivered = 0
    /\ accepted = <<>>
    /\ direct_hit = FALSE
    /\ last_foreign = FALSE
    /\ on_response_callback = FALSE
    /\ callback_calls = <<>>
    /\ unlocked_reads = {}

\* MessageWaiter.__init__, waiter.py:12-17: the listener is registered with once()
WaiterConstructed ==
    /\ listener = TRUE
    /\ pending = {}
    /\ emitted = 0
    /\ received_msg = None
    /\ response_event = FALSE
    /\ handler_pc = "idle"
    /\ handler_msg = None
    /\ elapsed = 0
    /\ waiter_pc = "constructed"
    /\ wait_returned = None
    /\ expired = FALSE
    /\ recv_at_wake = None
    /\ emitted_at_wake = 0
    /\ remove_exc = "not called"

\* ------------------------------------------------- Message: the values
\* names of bus participants; "-" stands for a key the dict does not have
Names == {"A", "B"}
NamesOpt == Names \cup {"-"}

\* Addresses of the nested mutable values. A dict holds such a value by
\* reference: the address; 0 stands for a key the dict does not have.
OrigCell == 1           \* the value under "session" in the original's context
PayloadCell == 2        \* the value under "data" in the payload given to the call
OverrideCell == 3       \* the value under "session" in the context given to the call
ContextCopy == 4        \* where deepcopy(self.context) puts its copy of "session"
PayloadCopy == 5        \* where deepcopy(payload) puts its copy of "data"
Cells == {OrigCell, PayloadCell, OverrideCell, ContextCopy, PayloadCopy}

\* a context: "source", "destination", and "session" holding a nested dict
Contexts(cell) == [source : NamesOpt, destination : NamesOpt, session : {0, cell}]

\* a payload: "destination", "data" holding a nested dict, and result standing
\* for the keys a CollectionMessage adds (query, handler, succeeded or timeout)
Payloads == [destination : NamesOpt, data : {0, PayloadCell}, result : {"-"}]

\* {} and None
EmptyContext == [source |-> "-", destination |-> "-", session |-> 0]
EmptyPayload == [destination |-> "-", data |-> 0, result |-> "-"]

NoMessage == [context |-> EmptyContext, payload |-> EmptyPayload]
NoCall == [context |-> EmptyContext, payload |-> EmptyPayload, overrides |-> EmptyContext]

\* what a dict reads as: its keys with the nested value's content for the address
Content(h, a) == IF a = 0 THEN "-" ELSE h[a]
ContextView(h, c) ==
    [source |-> c.source, destination |-> c.destination, session |-> Content(h, c.session)]
PayloadView(h, pl) ==
    [destination |-> pl.destination, data |-> Content(h, pl.data), result |-> pl.result]
MessageView(h, m) ==
    [context |-> ContextView(h, m.context), payload |-> PayloadView(h, m.payload)]

\* message.py:24-29: a message whose context is c; nothing derived from it yet
MessageConstructed(c) ==
    /\ heap = [a \in Cells |-> "v0"]
    /\ orig = c
    /\ call = NoCall
    /\ derived = NoMessage
    /\ op = "none"
    /\ orig_view = ContextView(heap, c)
    /\ derived_view = MessageView(heap, NoMessage)

\* no wait_for_response() call yet, no request emitted, no request delivered
NothingRequested ==
    /\ request_pc = "idle"
    /\ request_emitted = {}
    /\ requests = 0
    /\ acks = <<>>
    /\ invoked = <<>>
    /\ wrapper_exc = "none"

\* client.py:41-55, MessageBusClient.__init__
ClientConstructed ==
    /\ connected_event = FALSE
    /\ started_running = FALSE
    /\ socket_open = FALSE
    /\ retry = 5
    /\ emit_pc = "idle"
    /\ emit_waited = 0
    /\ sent = "nothing"
    /\ listeners = {}
    /\ once_set = {}
    /\ wrapped_funcs = [f \in {"f1", "f2"} |-> <<"absent", "", "">>]
    /\ remove_result = "not called"

Init ==
    /\ min_timeout \in MinTimeouts
    /\ max_timeout \in Ticks
    /\ CollectorConstructed
    /\ timeout = 0
    /\ WaiterConstructed
    /\ ClientConstructed
    /\ NothingRequested
    /\ MessageConstructed(EmptyContext)

\* ------------------------------------------------- delivery callbacks
\* _register_handler without the comparison of the query with collect_id
RegisterAccepts_AnyQuery(msg) == msg.handler \notin DOMAIN handlers

\* _register_handler storing the timeout of every message of the own query
RegisterAccepts_Registered(msg) == msg.query = collect_id

\* collector.py:57, the condition under which _register_handler stores the handler
RegisterAccepts(msg) ==
    msg.query = collect_id /\ msg.handler \notin DOMAIN handlers

\* collector.py:53-59
register_handler(msg) ==
    /\ UNCHANGED notCollector
    /\ UNCHANGED <<on_response_callback, callback_calls, unlocked_reads>>
    /\ delivered < MaxDeliveries
    /\ delivered' = delivered + 1
    /\ last_foreign' = (msg.hasData /\ msg.query # collect_id)
    /\ IF msg.hasData /\ RegisterAccepts(msg)
       THEN handlers' = HandlersSet(handlers, msg.handler,
                                    HandlersGet(handlers, msg.handler) + msg.timeout)
       ELSE handlers' = handlers      \* AttributeError on msg.data, or filtered out
    /\ UNCHANGED <<min_timeout, max_timeout, responses, queue, all_collected,
                   registered, torn_down, collect_pc, collect_result, wait_pc,
                   time_waited, remaining_timeout, wait_result, accepted,
                   direct_hit>>

\* collector.py:68, the condition under which _receive_response accepts the message
ResponseAccepts(msg) == msg.query = collect_id

\* collector.py:74-75, evaluated on the dicts as updated by lines 70-71
AllCollected(resp, hdl) == Len(resp) = Cardinality(DOMAIN hdl)

\* handlers after a response, the timeout zeroed for an acknowledged handler only
Answered_KnownOnly(hdl, h) ==
    IF h \in DOMAIN hdl THEN HandlersSet(hdl, h, 0) ELSE hdl

\* collector.py:71, self.handlers[handler_id] = 0
Answered(hdl, h) == HandlersSet(hdl, h, 0)

\* collector.py:50-51
on_response ==
    /\ UNCHANGED notCollector
    /\ ~on_response_callback
    /\ on_response_callback' = TRUE
    /\ UNCHANGED <<min_timeout, max_timeout, handlers, responses, queue,
                   all_collected, registered, torn_down, collect_pc, collect_result,
                   wait_pc, time_waited, remaining_timeout, wait_result, delivered,
                   accepted, direct_hit, last_foreign, callback_calls,
                   unlocked_reads>>

\* collector.py:61-80
receive_response(msg) ==
    /\ UNCHANGED notCollector
    /\ UNCHANGED <<on_response_callback, unlocked_reads>>
    /\ callback_calls' = IF msg.hasData /\ on_response_callback
                         THEN Append(callback_calls, msg)   \* lines 79-80
                         ELSE callback_calls
    /\ delivered < MaxDeliveries
    /\ delivered' = delivered + 1
    /\ last_foreign' = (msg.hasData /\ msg.query # collect_id)
    /\ IF msg.hasData /\ ResponseAccepts(msg)
       THEN LET resp == DictSet(responses, msg.handler, msg)
                hdl  == Answered(handlers, msg.handler)
                all  == AllCollected(resp, hdl)
                stop == all \/ msg.direct
            IN /\ responses' = resp
               /\ handlers' = hdl
               /\ queue' = IF stop THEN queue \o <<msg, QueueEnd>>
                                   ELSE Append(queue, msg)
               /\ all_collected' = (stop \/ all_collected)
               /\ accepted' = Append(accepted, msg)
               /\ direct_hit' = (direct_hit \/ (~all /\ msg.direct))
       ELSE UNCHANGED <<responses, handlers, queue, all_collected, accepted,
                        direct_hit>>
    /\ UNCHANGED <<min_timeout, max_timeout, registered, torn_down, collect_pc,
                   collect_result, wait_pc, time_waited, remaining_timeout,
                   wait_result>>

\* ------------------------------------------------------------ collect()
\* The attributes __init__ assigns (collector.py:24-38). _setup_collection_handlers
\* and _teardown_collection_handlers read self.bus, which is not one of them.
Attributes ==
    {"lock", "message_bus", "min_timeout", "max_timeout", "direct_return_func",
     "collect_id", "handlers", "responses", "all_collected", "message",
     "_start_time", "on_response_callback", "queue"}

\* collector.py:82-85: the listener types registered by _setup_collection_handlers,
\* given the attributes of the object: reading a missing attribute raises before
\* the first bus.on() call.
SetupRegisters(attrs) ==
    IF "bus" \in attrs THEN {"handling", "response"} ELSE {}

\* collector.py:99-108 with start() (92-97) and _setup_collection_handlers (82-85).
\* self.bus raises AttributeError in _setup_collection_handlers; nothing catches
\* it, so collect() ends there: no emit, no grace sleep, no shutdown().
\* The caller is one thread: it calls collect() before or after wait(), not
\* during it.
collect ==
    /\ UNCHANGED notCollector
    /\ UNCHANGED <<on_response_callback, callback_calls, unlocked_reads>>
    /\ collect_pc = "idle"
    /\ wait_pc \in {"idle", "done", "ValueError"}
    /\ registered' = registered \cup SetupRegisters(Attributes)
    /\ IF "bus" \in Attributes
       THEN collect_pc' = "started"
       ELSE collect_pc' = "AttributeError"
    /\ UNCHANGED <<min_timeout, max_timeout, handlers, responses, queue,
                   all_collected, torn_down, collect_result, wait_pc, time_waited,
                   remaining_timeout, wait_result, delivered, accepted, direct_hit, last_foreign>>

\* --------------------------------------- wait(): _wait_for_registered_handlers
\* collector.py:110-117: the completion check under the lock
wait_enter ==
    /\ UNCHANGED notCollector
    /\ UNCHANGED <<on_response_callback, callback_calls, unlocked_reads>>
    /\ wait_pc = "idle"
    /\ wait_pc' = "entered"
    /\ all_collected' = IF AllCollected(responses, handlers) THEN all_collected
                                                            ELSE FALSE
    /\ UNCHANGED <<min_timeout, max_timeout, handlers, responses, queue,
                   registered, torn_down, collect_pc, collect_result, time_waited,
                   remaining_timeout, wait_result, delivered, accepted, direct_hit, last_foreign>>

\* collector.py:119-120; max() of an empty dict raises ValueError
wait_init ==
    /\ UNCHANGED notCollector
    /\ UNCHANGED <<on_response_callback, callback_calls>>
    /\ unlocked_reads' = unlocked_reads \cup {120}
    /\ wait_pc = "entered"
    /\ time_waited' = min_timeout
    /\ IF DOMAIN handlers = {}
       THEN /\ wait_pc' = "ValueError"
            /\ UNCHANGED remaining_timeout
       ELSE /\ wait_pc' = "loop"
            /\ remaining_timeout' = MaxOf(handlers) - min_timeout
    /\ UNCHANGED <<min_timeout, max_timeout, handlers, responses, queue,
                   all_collected, registered, torn_down, collect_pc, collect_result,
                   wait_result, delivered, accepted, direct_hit, last_foreign>>

\* the loop going on while either of the two bounds is not reached
LoopContinues_Either(remaining, waited) == remaining > 0 \/ waited < max_timeout

\* collector.py:121, the loop condition
LoopContinues(remaining, waited) == remaining > 0 /\ waited < max_timeout

\* collector.py:121-123: the loop test and one all_collected.wait(timeout=0.1)
loop_slice ==
    /\ UNCHANGED notCollector
    /\ UNCHANGED <<on_response_callback, callback_calls, unlocked_reads>>
    /\ wait_pc = "loop"
    /\ wait_pc' = IF LoopContinues(remaining_timeout, time_waited) /\ ~all_collected
                  THEN "tick"      \* the slice timed out
                  ELSE "exit"      \* the loop test failed, or break on the signal
    /\ UNCHANGED <<min_timeout, max_timeout, handlers, responses, queue,
                   all_collected, registered, torn_down, collect_pc, collect_result,
                   time_waited, remaining_timeout, wait_result, delivered, accepted,
                   direct_hit, last_foreign>>

\* collector.py:125-126
loop_tick ==
    /\ UNCHANGED notCollector
    /\ UNCHANGED <<on_response_callback, callback_calls>>
    /\ unlocked_reads' = unlocked_reads \cup {126}
    /\ wait_pc = "tick"
    /\ wait_pc' = "loop"
    /\ time_waited' = time_waited + 1
    /\ remaining_timeout' = MaxOf(handlers) - (time_waited + 1)
    /\ UNCHANGED <<min_timeout, max_timeout, handlers, responses, queue,
                   all_collected, registered, torn_down, collect_pc, collect_result,
                   wait_result, delivered, accepted, direct_hit, last_foreign>>

\* collector.py:128-129
wait_return ==
    /\ UNCHANGED notCollector
    /\ UNCHANGED <<on_response_callback, callback_calls>>
    /\ unlocked_reads' = unlocked_reads \cup {129}
    /\ wait_pc = "exit"
    /\ wait_pc' = "done"
    /\ queue' = Append(queue, QueueEnd)
    /\ wait_result' = Values(responses)
    /\ UNCHANGED <<min_timeout, max_timeout, handlers, responses, all_collected,
                   registered, torn_down, collect_pc, collect_result, time_waited,
                   remaining_timeout, delivered, accepted, direct_hit, last_foreign>>

\* ---------------------------------------------------------------- Next
Next ==
    \/ \E msg \in HandlingMsgs : register_handler(msg)
    \/ \E msg \in ResponseMsgs(delivered + 1) : receive_response(msg)
    \/ collect
    \/ wait_enter
    \/ wait_init
    \/ loop_slice
    \/ loop_tick
    \/ wait_return

Spec == Init /\ [][Next]_vars

\* the collector with a callback installed by on_response(): the deliveries only
CallbackNext ==
    \/ on_response
    \/ \E msg \in HandlingMsgs : register_handler(msg)
    \/ \E msg \in ResponseMsgs(delivered + 1) : receive_response(msg)

CallbackSpec == Init /\ [][CallbackNext]_vars

\* ------------------------------------------------------- MessageWaiter
WaiterUnchanged == UNCHANGED notWaiter

\* client.py:131-143, on_message -> emitter.emit(message_type, message): the call of
\* every listener registered for the type is handed to the emitter's executor.
emit(msg) ==
    /\ emitted < MaxDeliveries
    /\ emitted' = emitted + 1
    /\ pending' = IF msg.type = msg_type /\ listener THEN pending \cup {msg}
                                                     ELSE pending
    /\ UNCHANGED <<listener, received_msg, response_event, handler_pc, handler_msg,
                   timeout, elapsed, waiter_pc, wait_returned, expired, recv_at_wake, emitted_at_wake, remove_exc>>
    /\ WaiterUnchanged

\* client.py:267-274, once(): the executor runs the listener's call; a one-shot
\* listener is taken out of the registry before its function is called, and a call
\* that finds it already taken out does nothing.
once_fire(msg) ==
    /\ msg \in pending
    /\ pending' = pending \ {msg}
    /\ IF listener
       THEN /\ listener' = FALSE
            /\ handler_pc' = "called"
            /\ handler_msg' = msg
       ELSE UNCHANGED <<listener, handler_pc, handler_msg>>
    /\ UNCHANGED <<emitted, received_msg, response_event, timeout, elapsed,
                   waiter_pc, wait_returned, expired, recv_at_wake, emitted_at_wake, remove_exc>>
    /\ WaiterUnchanged

\* waiter.py:21, what _handler stores for the message it is called with
HandlerStores(msg) == msg

\* waiter.py:19-21
handler_store ==
    /\ handler_pc = "called"
    /\ handler_pc' = "stored"
    /\ received_msg' = HandlerStores(handler_msg)
    /\ UNCHANGED <<listener, pending, emitted, response_event, handler_msg, timeout,
                   elapsed, waiter_pc, wait_returned, expired, recv_at_wake, emitted_at_wake, remove_exc>>
    /\ WaiterUnchanged

\* waiter.py:22
handler_set ==
    /\ handler_pc = "stored"
    /\ handler_pc' = "done"
    /\ response_event' = TRUE
    /\ UNCHANGED <<listener, pending, emitted, received_msg, handler_msg, timeout,
                   elapsed, waiter_pc, wait_returned, expired, recv_at_wake, emitted_at_wake, remove_exc>>
    /\ WaiterUnchanged

\* waiter.py:24, 33: wait(timeout) is called and blocks in response_event.wait
wait_call(t) ==
    /\ waiter_pc = "constructed"
    /\ waiter_pc' = "waiting"
    /\ timeout' = t
    /\ UNCHANGED <<listener, pending, emitted, received_msg, response_event,
                   handler_pc, handler_msg, elapsed, wait_returned, expired,
                   recv_at_wake, emitted_at_wake, remove_exc>>
    /\ WaiterUnchanged

\* one tick of the timeout passes while the caller is blocked
tick ==
    /\ waiter_pc = "waiting"
    /\ ~response_event
    /\ elapsed < timeout
    /\ elapsed' = elapsed + 1
    /\ UNCHANGED <<listener, pending, emitted, received_msg, response_event,
                   handler_pc, handler_msg, timeout, waiter_pc, wait_returned,
                   expired, recv_at_wake, emitted_at_wake, remove_exc>>
    /\ WaiterUnchanged

\* waiter.py:33: response_event.wait(timeout) returns, on the flag or on the timeout
wait_wake ==
    /\ waiter_pc = "waiting"
    /\ response_event \/ elapsed = timeout
    /\ waiter_pc' = "woken"
    /\ expired' = ~response_event
    /\ recv_at_wake' = received_msg
    /\ emitted_at_wake' = emitted
    /\ UNCHANGED <<listener, pending, emitted, received_msg, response_event,
                   handler_pc, handler_msg, timeout, elapsed, wait_returned,
                   remove_exc>>
    /\ WaiterUnchanged

\* waiter.py:34
wait_check ==
    /\ waiter_pc = "woken"
    /\ waiter_pc' = IF ~response_event THEN "cleanup" ELSE "return"
    /\ UNCHANGED <<listener, pending, emitted, received_msg, response_event,
                   handler_pc, handler_msg, timeout, elapsed, wait_returned,
                   expired, recv_at_wake, emitted_at_wake, remove_exc>>
    /\ WaiterUnchanged

\* client.py:276-314, remove() -> _remove_normal() -> emitter.remove_listener: the
\* registry after the call
RemoveListener(l) == FALSE

\* client.py:296, emitter.remove_listener: a registered listener is removed; for one
\* that is not registered the emitter raises, ValueError or KeyError by its version
\* (the two exceptions waiter.py:38-42 names)
RemoveOutcomes(l) == IF l THEN {"removed"} ELSE {"ValueError", "KeyError"}

\* client.py:293-297: _remove_normal catches ValueError only, so what remove()
\* raises to its caller is every other exception
RemoveRaises(outcome) == outcome \notin {"removed", "ValueError"}

\* the except clause of wait() naming ValueError alone
WaiterCatches_ValueErrorOnly(outcome) == outcome = "ValueError"

\* waiter.py:38, except (ValueError, KeyError)
WaiterCatches(outcome) == outcome \in {"ValueError", "KeyError"}

\* waiter.py:35-43: the removal; an exception of remove() that the except clause
\* does not name ends wait()
wait_cleanup ==
    /\ waiter_pc = "cleanup"
    /\ \E outcome \in RemoveOutcomes(listener) :
          /\ remove_exc' = outcome
          /\ waiter_pc' = IF RemoveRaises(outcome) /\ ~WaiterCatches(outcome)
                          THEN outcome ELSE "return"
    /\ listener' = RemoveListener(listener)
    /\ UNCHANGED <<pending, emitted, received_msg, response_event, handler_pc,
                   handler_msg, timeout, elapsed, wait_returned, expired,
                   recv_at_wake, emitted_at_wake>>
    /\ WaiterUnchanged

\* wait() giving the message only when the event is set
WaitReturns_OnlyIfSet(msg, isSet) == IF isSet THEN msg ELSE None

\* waiter.py:44, the value wait() returns
WaitReturns(msg, isSet) == msg

\* waiter.py:44
waiter_return ==
    /\ waiter_pc = "return"
    /\ waiter_pc' = "done"
    /\ wait_returned' = WaitReturns(received_msg, response_event)
    /\ UNCHANGED <<listener, pending, emitted, received_msg, response_event,
                   handler_pc, handler_msg, timeout, elapsed, expired, recv_at_wake, emitted_at_wake, remove_exc>>
    /\ WaiterUnchanged

WaiterInit ==
    /\ min_timeout = 0
    /\ max_timeout = 0
    /\ CollectorConstructed
    /\ timeout = 0
    /\ WaiterConstructed
    /\ ClientConstructed
    /\ NothingRequested
    /\ MessageConstructed(EmptyContext)

WaiterNext ==
    \/ \E msg \in BusMsgs(emitted + 1) : emit(msg)
    \/ \E msg \in pending : once_fire(msg)
    \/ handler_store
    \/ handler_set
    \/ \E t \in Ticks : wait_call(t)
    \/ tick
    \/ wait_wake
    \/ wait_check
    \/ wait_cleanup
    \/ waiter_return

WaiterSpec == WaiterInit /\ [][WaiterNext]_vars

\* ------------------------------------- MessageBusClient: connection, emit()
\* Time is counted in whole seconds.

\* client.py:154, connected_event.wait(10)
ConnectTimeout == 10

\* client.py:122, min(self.retry * 2, 60)
MaxRetry == 60

\* the other argument: the cap turned into a floor
Min_Larger(a, b) == IF a < b THEN b ELSE a

Min(a, b) == IF a < b THEN a ELSE b

\* client.py:326-329, run_forever()
run_forever ==
    /\ ~started_running
    /\ started_running' = TRUE
    /\ UNCHANGED <<connected_event, socket_open, retry, emit_pc, emit_waited, sent>>
    /\ UNCHANGED notClient

\* client.py:83-88, on_open(): the socket of a running client has connected
on_open ==
    /\ started_running
    /\ ~socket_open
    /\ socket_open' = TRUE
    /\ connected_event' = TRUE
    /\ retry' = 5
    /\ UNCHANGED <<started_running, emit_pc, emit_waited, sent>>
    /\ UNCHANGED notClient

\* client.py:94-129, on_error(): the socket is closed, the thread sleeps retry
\* seconds, doubles retry up to the cap and runs the new client; connected_event
\* is left as it was
on_error ==
    /\ started_running
    /\ socket_open' = FALSE
    /\ retry' = Min(retry * 2, MaxRetry)
    /\ started_running' = TRUE
    /\ UNCHANGED <<connected_event, emit_pc, emit_waited, sent>>
    /\ UNCHANGED notClient

\* client.py:331-334, close()
close ==
    /\ socket_open \/ connected_event
    /\ socket_open' = FALSE
    /\ connected_event' = FALSE
    /\ UNCHANGED <<started_running, retry, emit_pc, emit_waited, sent>>
    /\ UNCHANGED notClient

\* client.py:145-154, emit() is called and enters connected_event.wait(10)
emit_call ==
    /\ emit_pc \in {"idle", "returned", "ValueError"}
    /\ emit_pc' = "wait(10)"
    /\ emit_waited' = 0
    /\ sent' = "nothing"
    /\ UNCHANGED <<connected_event, started_running, socket_open, retry>>
    /\ UNCHANGED notClient

\* client.py:154, a second of connected_event.wait(10) passes without the event
emit_tick ==
    /\ emit_pc = "wait(10)"
    /\ ~connected_event
    /\ emit_waited < ConnectTimeout
    /\ emit_waited' = emit_waited + 1
    /\ UNCHANGED <<connected_event, started_running, socket_open, retry, emit_pc, sent>>
    /\ UNCHANGED notClient

\* client.py:154-159, connected_event.wait(10) returns False: ValueError unless
\* run_forever() was called, else connected_event.wait() without a timeout
emit_timeout ==
    /\ emit_pc = "wait(10)"
    /\ ~connected_event
    /\ emit_waited >= ConnectTimeout
    /\ emit_pc' = IF ~started_running THEN "ValueError" ELSE "wait()"
    /\ UNCHANGED <<connected_event, started_running, socket_open, retry,
                   emit_waited, sent>>
    /\ UNCHANGED notClient

\* client.py:154 and 159, either wait returns because the event is set
emit_connected ==
    /\ emit_pc \in {"wait(10)", "wait()"}
    /\ connected_event
    /\ emit_pc' = "send"
    /\ UNCHANGED <<connected_event, started_running, socket_open, retry,
                   emit_waited, sent>>
    /\ UNCHANGED notClient

\* client.py:161-172: send() in a try whose except clause logs
\* WebSocketConnectionClosedException; how emit() ends
SendReturns(open) == "returned"

\* client.py:161-172, the send and the return of emit()
emit_send ==
    /\ emit_pc = "send"
    /\ sent' = IF socket_open THEN "sent" ELSE "dropped"
    /\ emit_pc' = SendReturns(socket_open)
    /\ UNCHANGED <<connected_event, started_running, socket_open, retry, emit_waited>>
    /\ UNCHANGED notClient

\* the steps of the thread that is inside emit()
EmitStep == emit_tick \/ emit_timeout \/ emit_connected \/ emit_send

ClientInit ==
    /\ min_timeout = 0
    /\ max_timeout = 0
    /\ CollectorConstructed
    /\ timeout = 0
    /\ WaiterConstructed
    /\ ClientConstructed
    /\ NothingRequested
    /\ MessageConstructed(EmptyContext)

ClientNext ==
    \/ run_forever
    \/ on_open
    \/ on_error
    \/ close
    \/ emit_call
    \/ emit_tick
    \/ emit_timeout
    \/ emit_connected
    \/ emit_send

ClientSpec == ClientInit /\ [][ClientNext]_vars

\* ------------------------------------- MessageBusClient: listener registry
\* event names and callbacks given by the callers
Events == {"e1", "e2"}
Funcs == {"f1", "f2"}

\* wrapped_funcs is a dict from function to wrapper; Absent marks a function
\* that is not a key
Absent == <<"absent", "", "">>

\* a function registered as it is
Plain(f) == <<"func", f, "">>

\* client.py:205-218: the closure on_collect(e, f) builds around f
Wrapper(f, e) == <<"wrapper", f, e>>

\* client.py:258-265, on(): emitter.on stores the callable under the event
on(e, f) ==
    /\ listeners' = listeners \cup {<<e, Plain(f)>>}
    /\ once_set' = once_set \ {<<e, Plain(f)>>}
    /\ UNCHANGED <<wrapped_funcs, remove_result>>
    /\ UNCHANGED notRegistry

\* client.py:267-274, once(): the listener is removed when its event is emitted
once(e, f) ==
    /\ listeners' = listeners \cup {<<e, Plain(f)>>}
    /\ once_set' = once_set \cup {<<e, Plain(f)>>}
    /\ UNCHANGED <<wrapped_funcs, remove_result>>
    /\ UNCHANGED notRegistry

\* client.py:197-221, on_collect(): wrapped_funcs[func] = wrapper, on(event, wrapper)
on_collect(e, f) ==
    /\ <<e, Wrapper(f, e)>> \notin listeners
    /\ wrapped_funcs' = [wrapped_funcs EXCEPT ![f] = Wrapper(f, e)]
    /\ listeners' = listeners \cup {<<e, Wrapper(f, e)>>}
    /\ UNCHANGED <<once_set, remove_result>>
    /\ UNCHANGED notRegistry

\* client.py:131-143, on_message(): the emitter calls the listeners of the
\* message type and drops those registered with once()
on_message(e) ==
    /\ \E l \in once_set : l[1] = e
    /\ listeners' = {l \in listeners : ~(l \in once_set /\ l[1] = e)}
    /\ once_set' = {l \in once_set : l[1] # e}
    /\ UNCHANGED <<wrapped_funcs, remove_result>>
    /\ UNCHANGED notRegistry

\* client.py:288-289, self.wrapped_funcs.pop(external_func)
Pop(d, k) == [d EXCEPT ![k] = Absent]

\* client.py:276-314, remove(): _remove_wrapped for a function known to
\* wrapped_funcs, else _remove_normal; the emitter's exception for a listener
\* that is not registered reaches the caller unless it is a ValueError
remove(e, f) ==
    LET wrapped == wrapped_funcs[f] # Absent
        target == IF wrapped THEN wrapped_funcs[f] ELSE Plain(f)
    IN  /\ wrapped_funcs' = IF wrapped THEN Pop(wrapped_funcs, f) ELSE wrapped_funcs
        /\ \E outcome \in RemoveOutcomes(<<e, target>> \in listeners) :
              remove_result' = IF RemoveRaises(outcome) THEN outcome ELSE "returned"
        /\ listeners' = listeners \ {<<e, target>>}
        /\ once_set' = once_set \ {<<e, target>>}
        /\ UNCHANGED notRegistry

\* client.py:205-218, the wrapper of on_collect
\* message.py:80, the parameters of Message.reply besides self
ReplyParameters == {"message_type", "payload", "context"}

\* client.py:208-215, the keyword arguments of the wrapper's msg.reply(...) call
AckKeywords == {"data"}

\* a call binds when every keyword names a parameter; else Python raises TypeError
CallBinds(keywords, parameters) == keywords \subseteq parameters

\* client.py:197, the timeout on_collect was given, in ticks
HandlerTimeout == MaxTick

\* client.py:205-218: the wrapper registered for (e, f) is called with a request of
\* the collection "own": handler id, acknowledgment by msg.reply(..., data=...),
\* emit, then the user function; the TypeError of the reply call ends it before
\* the emit
wrapper_call(e, f) ==
    /\ <<e, Wrapper(f, e)>> \in listeners
    /\ requests < MaxDeliveries
    /\ requests' = requests + 1
    /\ IF CallBinds(AckKeywords, ReplyParameters)
       THEN /\ acks' = Append(acks, [query |-> collect_id, handler |-> requests + 1,
                                     timeout |-> HandlerTimeout])
            /\ invoked' = Append(invoked, [query |-> collect_id,
                                           handler |-> requests + 1, func |-> f])
            /\ wrapper_exc' = "none"
       ELSE /\ wrapper_exc' = "TypeError"
            /\ UNCHANGED <<acks, invoked>>
    /\ UNCHANGED notWrapper

RegistryInit == ClientInit

RegistryNext ==
    \/ \E e \in Events, f \in Funcs : on(e, f)
    \/ \E e \in Events, f \in Funcs : once(e, f)
    \/ \E e \in Events, f \in Funcs : on_collect(e, f)
    \/ \E e \in Events : on_message(e)
    \/ \E e \in Events, f \in Funcs : remove(e, f)
    \/ \E e \in Events, f \in Funcs : wrapper_call(e, f)

RegistrySpec == RegistryInit /\ [][RegistryNext]_vars

\* ------------------------------------------- Message.reply and its callers
\* copy.deepcopy of a context: the nested value is copied to a new address
DeepCopyContext(c) == [c EXCEPT !.session = IF c.session = 0 THEN 0 ELSE ContextCopy]

\* copy.deepcopy of a payload
DeepCopyPayload(pl) == [pl EXCEPT !.data = IF pl.data = 0 THEN 0 ELSE PayloadCopy]

\* the heap once the two copies are made
HeapAfterCopy(h, c, pl) ==
    [a \in Cells |->
        IF a = ContextCopy /\ c.session # 0 THEN h[c.session]
        ELSE IF a = PayloadCopy /\ pl.data # 0 THEN h[pl.data]
        ELSE h[a]]

\* message.py:95-96, for key in context: new_context[key] = context[key]
Override(c, ov) ==
    [source      |-> IF ov.source # "-" THEN ov.source ELSE c.source,
     destination |-> IF ov.destination # "-" THEN ov.destination ELSE c.destination,
     session     |-> IF ov.session # 0 THEN ov.session ELSE c.session]

\* message.py:97-98, the payload's "destination" goes into the context
PayloadDestination(c, pl) ==
    IF pl.destination # "-" THEN [c EXCEPT !.destination = pl.destination] ELSE c

\* a reply that leaves source and destination where they are
Exchange_Kept(c) == c

\* message.py:99-102, source and destination change places when both are there
Exchange(c) ==
    IF c.source # "-" /\ c.destination # "-"
    THEN [c EXCEPT !.source = c.destination, !.destination = c.source]
    ELSE c

\* message.py:91-103, the context of the message reply() builds
ReplyContext(c, pl, ov) ==
    Exchange(PayloadDestination(Override(DeepCopyContext(c), ov), DeepCopyPayload(pl)))

\* message.py:91-104: what reply(message_type, payload, context) on the original
\* builds and leaves behind
Derive(pl, ov) ==
    /\ call' = [context |-> orig, payload |-> pl, overrides |-> ov]
    /\ heap' = HeapAfterCopy(heap, orig, pl)
    /\ derived' = [context |-> ReplyContext(orig, pl, ov), payload |-> DeepCopyPayload(pl)]
    /\ derived_view' = MessageView(heap', derived')
    /\ UNCHANGED <<orig, orig_view>>
    /\ UNCHANGED notMessage

\* message.py:80-104
reply(pl, ov) ==
    /\ op = "none"
    /\ op' = "reply"
    /\ Derive(pl, ov)

\* message.py:106-107
response(pl, ov) ==
    /\ op = "none"
    /\ op' = "response"
    /\ Derive(pl, ov)

\* message.py:174-193: reply(type + ".response", payload, context or self.context)
success(pl, ctx) ==
    /\ op = "none"
    /\ op' = "success"
    /\ Derive([pl EXCEPT !.result = "succeeded"],
              IF ctx = EmptyContext THEN orig ELSE ctx)

\* message.py:195-214: reply(type + ".response", payload, self.context)
failure ==
    /\ op = "none"
    /\ op' = "failure"
    /\ Derive([EmptyPayload EXCEPT !.result = "failed"], orig)

\* message.py:216-236: reply(type + ".handling", payload, self.context)
extend ==
    /\ op = "none"
    /\ op' = "extend"
    /\ Derive([EmptyPayload EXCEPT !.result = "timeout"], orig)

\* the caller writes into the nested value of the original's context
mutate_original_nested(v) ==
    /\ op # "none"
    /\ orig.session # 0
    /\ heap[orig.session] # v
    /\ heap' = [heap EXCEPT ![orig.session] = v]
    /\ orig_view' = ContextView(heap', orig)
    /\ UNCHANGED <<orig, call, derived, op, derived_view>>
    /\ UNCHANGED notMessage

\* the caller sets a key of the original's context
mutate_original_key(n) ==
    /\ op # "none"
    /\ orig.source # n
    /\ orig' = [orig EXCEPT !.source = n]
    /\ orig_view' = ContextView(heap, orig')
    /\ UNCHANGED <<heap, call, derived, op, derived_view>>
    /\ UNCHANGED notMessage

\* the caller writes into the nested value of the payload it gave
mutate_payload_nested(v) ==
    /\ op # "none"
    /\ call.payload.data # 0
    /\ heap[PayloadCell] # v
    /\ heap' = [heap EXCEPT ![PayloadCell] = v]
    /\ UNCHANGED <<orig, call, derived, op, orig_view, derived_view>>
    /\ UNCHANGED notMessage

\* the receiver writes into a nested value of the derived message
mutate_derived_nested(a, v) ==
    /\ op # "none"
    /\ a \in {derived.context.session, derived.payload.data} \ {0}
    /\ heap[a] # v
    /\ heap' = [heap EXCEPT ![a] = v]
    /\ derived_view' = MessageView(heap', derived)
    /\ UNCHANGED <<orig, call, derived, op, orig_view>>
    /\ UNCHANGED notMessage

MessageInit ==
    /\ min_timeout = 0
    /\ max_timeout = 0
    /\ CollectorConstructed
    /\ timeout = 0
    /\ WaiterConstructed
    /\ ClientConstructed
    /\ NothingRequested
    /\ \E c \in Contexts(OrigCell) : MessageConstructed(c)

MessageNext ==
    \/ \E pl \in Payloads, ov \in Contexts(OverrideCell) : reply(pl, ov)
    \/ \E pl \in Payloads, ov \in Contexts(OverrideCell) : response(pl, ov)
    \/ \E pl \in Payloads, ctx \in Contexts(OverrideCell) : success(pl, ctx)
    \/ failure
    \/ extend
    \/ \E v \in {"v0", "v1"} : mutate_original_nested(v)
    \/ \E n \in Names : mutate_original_key(n)
    \/ \E v \in {"v0", "v1"} : mutate_payload_nested(v)
    \/ \E a \in Cells, v \in {"v0", "v1"} : mutate_derived_nested(a, v)

MessageSpec == MessageInit /\ [][MessageNext]_vars

\* --------------------------- wait_for_response(), collect(): the requests
\* before `waiter = MessageWaiter(self, message_type)`: no waiter, no listener
WaiterAbsent ==
    /\ listener = FALSE
    /\ pending = {}
    /\ emitted = 0
    /\ received_msg = None
    /\ response_event = FALSE
    /\ handler_pc = "idle"
    /\ handler_msg = None
    /\ elapsed = 0
    /\ waiter_pc = "absent"
    /\ wait_returned = None
    /\ expired = FALSE
    /\ recv_at_wake = None
    /\ emitted_at_wake = 0
    /\ remove_exc = "not called"

\* client.py:253-254, waiter = MessageWaiter(self, message_type): __init__
\* registers the one-shot listener (waiter.py:12-17)
request_waiter ==
    /\ request_pc = "idle"
    /\ request_pc' = "waiter"
    /\ waiter_pc = "absent"
    /\ waiter_pc' = "constructed"
    /\ listener' = TRUE
    /\ UNCHANGED <<pending, emitted, received_msg, response_event, handler_pc,
                   handler_msg, timeout, elapsed, wait_returned, expired,
                   recv_at_wake, emitted_at_wake, remove_exc, request_emitted>>
    /\ UNCHANGED notRequest

\* client.py:255, self.emit(message)
request_emit ==
    /\ request_pc = "waiter"
    /\ request_pc' = "emitted"
    /\ request_emitted' = request_emitted \cup {"wait_for_response"}
    /\ UNCHANGED wvars
    /\ UNCHANGED notRequest

\* client.py:256, return waiter.wait(timeout)
request_wait(t) ==
    /\ request_pc = "emitted"
    /\ wait_call(t)

RequestInit ==
    /\ min_timeout = 0
    /\ max_timeout = 0
    /\ CollectorConstructed
    /\ timeout = 0
    /\ WaiterAbsent
    /\ ClientConstructed
    /\ NothingRequested
    /\ MessageConstructed(EmptyContext)

RequestNext ==
    \/ collect
    \/ request_waiter
    \/ request_emit
    \/ \E t \in Ticks : request_wait(t)
    \/ \E msg \in BusMsgs(emitted + 1) : emit(msg)
    \/ \E msg \in pending : once_fire(msg)
    \/ handler_store
    \/ handler_set
    \/ tick
    \/ wait_wake
    \/ wait_check
    \/ wait_cleanup
    \/ waiter_return

RequestSpec == RequestInit /\ [][RequestNext]_vars

\* =================================================================
\* Properties of the MessageCollector (checked under Spec)
\* =================================================================

\* collect() has ended, by returning or by an exception
CollectFinished == collect_pc \in {"returned", "AttributeError"}

\* C1: a T.handling or T.response message whose query differs from collect_id
\* changes neither handlers nor responses, and no such message is ever among the
\* responses or in the list built for the caller.
C1_ForeignQueryIgnored ==
    /\ [][(delivered' # delivered /\ last_foreign')
            => UNCHANGED <<handlers, responses>>]_vars
    /\ [](\A i \in DOMAIN responses : responses[i].msg.query = collect_id)
    /\ [](\A i \in DOMAIN wait_result : wait_result[i].query = collect_id)

\* the latest delivery was a foreign message, it came after a response had been
\* accepted, and the collection ended with that one response
C1_Witness ==
    last_foreign /\ wait_pc = "done" /\ Len(wait_result) = 1

\* C2: when no handler has acknowledged, collect() returns an empty sequence (it
\* does not end with an exception).
C2_NoHandlersReturnsEmpty ==
    (CollectFinished /\ DOMAIN handlers = {})
        => (collect_pc = "returned" /\ collect_result = <<>>)

\* C3: when every known handler has an accepted response, collect() returns
\* exactly those responses.
C3_AllAnsweredReturnsResponses ==
    (CollectFinished /\ DOMAIN handlers # {} /\ AllCollected(responses, handlers))
        => (collect_pc = "returned" /\ collect_result = Values(responses))

\* C4: with two acknowledged handlers of which one answered, collect() returns
\* exactly the one accepted response.
C4_SilentHandlerOneResponse ==
    (CollectFinished /\ Cardinality(DOMAIN handlers) = 2 /\ Len(responses) = 1)
        => (collect_pc = "returned" /\ Len(collect_result) = 1
            /\ collect_result = Values(responses))

\* C5: once direct_return_func has returned true for an accepted response, the
\* poll loop waits no further slice, whenever the response arrived.
C5_DirectReturnEndsCollection ==
    [][(direct_hit /\ wait_pc = "loop") => wait_pc' # "tick"]_vars

\* C6: collect() returns, and the waiting counted after the grace period never
\* exceeds max_timeout plus one slice.
C6_CollectReturnsWithinBound ==
    /\ CollectFinished => collect_pc = "returned"
    /\ wait_pc \in {"loop", "tick", "exit", "done"}
           => time_waited - min_timeout <= max_timeout + 1

\* C7: the list built for the caller holds the accepted responses in the order of
\* their acceptance (the ids number the messages in the order of delivery).
C7_ResultInAcceptanceOrder ==
    wait_pc = "done" =>
        \A i, j \in DOMAIN wait_result :
            i < j => wait_result[i].id < wait_result[j].id

\* C8: whenever collect() has finished, by return or by exception, the teardown
\* has run and neither listener of the collector is registered.
C8_ListenersDeregisteredOnExit ==
    CollectFinished => (torn_down /\ registered = {})

\* =================================================================
\* Properties of the MessageWaiter (checked under WaiterSpec)
\* =================================================================

\* C9: the waiter's one-shot listener is registered from construction until it
\* fires or wait() removes it, it fires at most once, and a message the listener
\* stored before response_event.wait() returned is the message wait() returns.
C9_DeliveredMessageReturned ==
    /\ (handler_pc = "idle" /\ waiter_pc \in {"constructed", "waiting", "woken", "cleanup"})
           => listener
    /\ handler_pc # "idle" => ~listener
    /\ (waiter_pc = "done" /\ recv_at_wake # None)
           => (wait_returned = recv_at_wake /\ wait_returned = handler_msg)

\* the listener stored a message before the wait ended, and wait() has returned
C9_Witness ==
    waiter_pc = "done" /\ recv_at_wake # None /\ recv_at_wake.type = msg_type

\* C10: if no message was emitted before the timeout of wait() elapsed, wait()
\* returns None and the listener is no longer registered.
C10_TimeoutReturnsNone ==
    (waiter_pc = "done" /\ expired /\ emitted_at_wake = 0)
        => (wait_returned = None /\ ~listener)

\* C11: whatever the interleaving of the listener firing and the timeout, wait()
\* ends by returning (the exception of removing an already removed listener does
\* not escape), it returns either None or the one message the listener was called
\* with, and the listener is no longer registered once wait() has returned.
C11_OneOutcomeNoLeak ==
    /\ waiter_pc \in {"constructed", "waiting", "woken", "cleanup", "return", "done"}
    /\ waiter_pc = "done" =>
          /\ ~listener
          /\ \/ wait_returned = None
             \/ handler_pc \in {"stored", "done"} /\ wait_returned = handler_msg

\* the listener fired, the timeout path still tried to remove it, and wait()
\* returned the message
C11_Witness ==
    /\ waiter_pc = "done"
    /\ remove_exc \in {"ValueError", "KeyError"}
    /\ wait_returned # None

\* =================================================================
\* Properties of MessageBusClient (checked under ClientSpec)
\* =================================================================

\* C12: emit() called without a connection fails after a bounded wait, whether
\* or not run_forever() was called: while emit() waits and the connection is
\* absent, either its wait is still running towards the timeout or the timeout
\* is taken, so it never sits in a wait that only a connection can end.
C12_EmitWaitBounded ==
    (emit_pc \in {"wait(10)", "wait()"} /\ ~connected_event)
        => ENABLED (emit_tick \/ emit_timeout)

\* C13: a request whose emit met a closed connection is not reported like one
\* that was sent: emit() returns normally only after the message was sent, so
\* the collection that follows cannot pass an empty result for a transport error.
C13_TransportFailureSurfaced ==
    emit_pc = "returned" => sent = "sent"

\* C14: remove(type, handler) for a handler that is not registered, or that the
\* dispatcher already removed, never ends with an exception for its caller.
C14_RemoveNeverRaises ==
    remove_result \in {"not called", "returned"}

\* =================================================================
\* Further properties of the MessageCollector
\* =================================================================

\* C15 (under CallbackSpec): the callback installed with on_response is called
\* only with accepted responses, and at most once with each of them; it is never
\* called with a response the collector rejected.
C15_CallbackOnlyForAccepted ==
    /\ \A i \in DOMAIN callback_calls :
          \E j \in DOMAIN accepted : accepted[j] = callback_calls[i]
    /\ \A i, j \in DOMAIN callback_calls :
          i # j => callback_calls[i] # callback_calls[j]

\* C16 (under Spec): handlers and responses are read and written only while the
\* lock is held: no statement outside a `with self.lock` block has used them.
C16_SharedStateUnderLock ==
    unlocked_reads = {}

\* C17 (under Spec): the handler ids in responses are a subset of the handler ids
\* in handlers, whatever the order of handling and response deliveries.
C17_ResponsesSubsetOfHandlers ==
    Keys(responses) \subseteq DOMAIN handlers

\* the only delivery so far was a response, accepted from a handler that never
\* acknowledged
C17_Witness ==
    /\ delivered = 1
    /\ Len(responses) = 1

\* C18 (under Spec): a T.handling message of the collector's query for a handler
\* that is already registered adds its timeout to the handler's entry.
C18_ExtendAddsTimeout ==
    [][\A msg \in HandlingMsgs :
          (/\ msg.hasData
           /\ msg.query = collect_id
           /\ msg.handler \in DOMAIN handlers
           /\ register_handler(msg))
          => handlers'[msg.handler] = handlers[msg.handler] + msg.timeout]_vars

\* =================================================================
\* Properties of Message (checked under MessageSpec)
\* =================================================================

\* C19: in the context of a reply, source and destination have changed places
\* when both are there; the destination that takes part is the payload's
\* "destination" if it has one, else the override's, else the original's, and the
\* source is the override's if there is one, else the original's.
C19_ReplyExchanges ==
    op = "reply" =>
        LET d == IF call.payload.destination # "-" THEN call.payload.destination
                 ELSE IF call.overrides.destination # "-" THEN call.overrides.destination
                 ELSE call.context.destination
            s == IF call.overrides.source # "-" THEN call.overrides.source
                 ELSE call.context.source
        IN  /\ (s # "-" /\ d # "-")
                 => (derived.context.source = d /\ derived.context.destination = s)
            /\ (s = "-" \/ d = "-")
                 => (derived.context.source = s /\ derived.context.destination = d)

\* a reply whose payload and override both name a destination and whose override
\* names a source other than the original's
C19_Witness ==
    /\ op = "reply"
    /\ call.context.source = "B"
    /\ call.overrides.source = "A"
    /\ call.overrides.destination = "A"
    /\ call.payload.destination = "B"
    /\ derived.context.source = "B"
    /\ derived.context.destination = "A"

\* C20: a message derived with reply, response, success, failure or extend shares
\* no mutable structure with the original or the given payload: each of the two
\* messages still reads as it did when it was made or last written to itself.
C20_NoSharedStructure ==
    op # "none" =>
        /\ MessageView(heap, derived) = derived_view
        /\ ContextView(heap, orig) = orig_view

\* =================================================================
\* The collector's handler entries and the poll loop (checked under Spec)
\* =================================================================

Larger(a, b) == IF a > b THEN a ELSE b

C25_WaitWithoutHandlersReturns ==
    wait_pc # "ValueError"

\* =================================================================
\* The request paths (checked under RequestSpec)
\* =================================================================

\* wait_for_response: from the emit of the request on, the one-shot listener is
\* registered until it fires or wait() removes it
WaitForResponseListens ==
    /\ "wait_for_response" \in request_emitted => waiter_pc # "absent"
    /\ (/\ "wait_for_response" \in request_emitted
        /\ handler_pc = "idle"
        /\ waiter_pc \in {"constructed", "waiting", "woken", "cleanup"}) => listener

\* C23: on both paths the reply listeners are registered before the request is
\* emitted: collect(), once called, has registered the T.handling and T.response
\* listeners and emitted the request, and wait_for_response has its listener
\* registered from the emit on.
C23_ListenersBeforeEmit ==
    /\ collect_pc # "idle" =>
          /\ {"handling", "response"} \subseteq registered
          /\ "collect" \in request_emitted
    /\ WaitForResponseListens

\* =================================================================
\* on_collect and remove (checked under RegistrySpec)
\* =================================================================

\* C24: each request delivered to a wrapper of on_collect gives one T.handling
\* acknowledgment with the request's collect id, a fresh handler id and the
\* configured timeout, and one call of the user function with a
\* CollectionMessage of the same handler id and query.
C24_AckThenInvoke ==
    /\ Len(acks) = requests
    /\ Len(invoked) = requests
    /\ \A i \in DOMAIN acks :
          /\ acks[i].query = collect_id
          /\ acks[i].timeout = HandlerTimeout
          /\ invoked[i].handler = acks[i].handler
          /\ invoked[i].query = acks[i].query
          /\ \A j \in DOMAIN acks : i # j => acks[i].handler # acks[j].handler

\* C26: remove(event, func) for a pair registered with on_collect(event, func)
\* deregisters the wrapper of that pair and no other listener.
C26_RemoveDeregistersWrapper ==
    [][\A e \in Events, f \in Funcs :
          (<<e, Wrapper(f, e)>> \in listeners /\ remove(e, f))
          => listeners' = listeners \ {<<e, Wrapper(f, e)>>}]_vars

\* =================================================================
\* reconnect delay (checked under ClientSpec)
\* =================================================================

\* the delay after one more failed attempt: doubled, at most 60 seconds
Doubled(r) == IF 2 * r < 60 THEN 2 * r ELSE 60

\* C27: retry is always one of 5, 10, 20, 40, 60: it starts at 5, every on_error
\* doubles it up to the cap of 60 and every on_open sets it back to 5.
C27_RetryBackoff ==
    /\ retry = 5
    /\ [](retry \in {5, 10, 20, 40, 60})
    /\ [][retry' # retry => (on_error \/ on_open)]_vars
    /\ [][on_error => retry' = Doubled(retry)]_vars
    /\ [][on_open => retry' = 5]_vars

\* the delay has reached the cap after four failed attempts in a row
C27_Witness == retry = 60 /\ ~socket_open /\ started_running

====
